---- MODULE Spec2Model ----
(***************************************************************************)
(* Model of the schema-aware query layer: Database (model.py), Interface   *)
(* (view.py) and AppController (controller.py), driven through one         *)
(* psycopg2 session opened with autocommit disabled.                       *)
(*                                                                         *)
(* Strings that the code inspects character by character (native type      *)
(* names, column names, raw user input) are sequences of one-character     *)
(* strings, so that strip(), lower(), startswith(), "in" and int() are     *)
(* computed, not looked up.                                                *)
(***************************************************************************)
EXTENDS Integers, Sequences, FiniteSets, TLC

\* ------------------------------------------------------------------ bounds
MaxRows == 2     \* rows the database may hold, all tables together

\* ----------------------------------------------------------- string helpers
UpperChars == <<"A","B","C","D","E","F","G","H","I","J","K","L","M",
                "N","O","P","Q","R","S","T","U","V","W","X","Y","Z">>
LowerChars == <<"a","b","c","d","e","f","g","h","i","j","k","l","m",
                "n","o","p","q","r","s","t","u","v","w","x","y","z">>

LowerMap == [c \in {UpperChars[i] : i \in 1..Len(UpperChars)} |->
                LowerChars[CHOOSE i \in 1..Len(UpperChars) : UpperChars[i] = c]]

LowerChar(c) == IF c \in DOMAIN LowerMap THEN LowerMap[c] ELSE c

\* str.lower()
Lower(s) == [i \in 1..Len(s) |-> LowerChar(s[i])]

\* str.startswith(prefix)
StartsWith(s, prefix) ==
    /\ Len(prefix) <= Len(s)
    /\ SubSeq(s, 1, Len(prefix)) = prefix

\* sub in s
Contains(s, sub) ==
    \E i \in 1..(Len(s) - Len(sub) + 1) : SubSeq(s, i, i + Len(sub) - 1) = sub

IsSpace(c) == c \in {" ", "\t", "\n"}

RECURSIVE LStrip(_)
LStrip(s) == IF s # <<>> /\ IsSpace(Head(s)) THEN LStrip(Tail(s)) ELSE s

RECURSIVE RStrip(_)
RStrip(s) ==
    IF s # <<>> /\ IsSpace(s[Len(s)]) THEN RStrip(SubSeq(s, 1, Len(s) - 1)) ELSE s

\* str.strip()
Strip(s) == RStrip(LStrip(s))

Digits == <<"0","1","2","3","4","5","6","7","8","9">>
IsDigit(c) == \E i \in 1..10 : Digits[i] = c
DigitVal(c) == (CHOOSE i \in 1..10 : Digits[i] = c) - 1

RECURSIVE DigitsVal(_)
DigitsVal(s) ==
    IF s = <<>> THEN 0 ELSE 10 * DigitsVal(SubSeq(s, 1, Len(s) - 1)) + DigitVal(s[Len(s)])

\* the strings int() accepts: optional sign, then decimal digits
IsIntLiteral(s) ==
    LET body == IF s # <<>> /\ Head(s) \in {"+", "-"} THEN Tail(s) ELSE s
    IN  body # <<>> /\ \A i \in 1..Len(body) : IsDigit(body[i])

\* int(s) for a string int() accepts
IntOf(s) ==
    IF Head(s) = "-" THEN 0 - DigitsVal(Tail(s))
    ELSE IF Head(s) = "+" THEN DigitsVal(Tail(s))
    ELSE DigitsVal(s)

\* ------------------------------------------------------------------ values
\* Python values handed to the session as parameters, and SQL values stored
PyNone == [k |-> "null"]
PyInt(i) == [k |-> "int", i |-> i]
PyStr(s) == [k |-> "str", s |-> s]
Null == PyNone

\* ------------------------------------------------------ native type names
T_integer == <<"i","n","t","e","g","e","r">>
T_text == <<"t","e","x","t">>
T_uuid == <<"u","u","i","d">>

\* --------------------------------------------------------- the live schema
\* information_schema.columns of the public schema, in ordinal order:
\* name, data_type, is_nullable = 'NO', column_default IS NOT NULL
Col(n, t, nn, d) == [name |-> n, type |-> t, notnull |-> nn, hasdefault |-> d]

Tables == {"customers", "orders", "codes", "events", "tokens"}

SchemaColumns(t) ==
    CASE t = "customers" -> << Col("id", T_integer, TRUE, TRUE),
                               Col("name", T_text, FALSE, FALSE) >>
      [] t = "orders"    -> << Col("id", T_integer, TRUE, TRUE),
                               Col("customer_id", T_integer, TRUE, FALSE) >>
      [] t = "codes"     -> << Col("code", T_text, TRUE, FALSE) >>
      [] t = "events"    -> << Col("qty", T_integer, TRUE, FALSE) >>
      [] t = "tokens"    -> << Col("tag", T_uuid, TRUE, FALSE),
                               Col("contact_email", T_text, TRUE, FALSE) >>
      [] OTHER           -> << >>

\* the names a user may type for a table
TableInputs == Tables \cup {"nosuch"}

\* the catalog, read once per table
SchemaTable == [t \in TableInputs |-> SchemaColumns(t)]

\* the characters of a column name, for the 'email' test
NameChars(c) ==
    CASE c = "id" -> <<"i","d">>
      [] c = "name" -> <<"n","a","m","e">>
      [] c = "customer_id" -> <<"c","u","s","t","o","m","e","r","_","i","d">>
      [] c = "code" -> <<"c","o","d","e">>
      [] c = "qty" -> <<"q","t","y">>
      [] c = "tag" -> <<"t","a","g">>
      [] c = "contact_email" -> <<"c","o","n","t","a","c","t","_","e","m","a","i","l">>
      [] OTHER -> << >>

\* PRIMARY KEY constraints: table -> column ("" when the table has none)
SchemaPk(t) ==
    CASE t = "customers" -> "id"
      [] t = "orders" -> "id"
      [] t = "codes" -> "code"
      [] OTHER -> ""

\* FOREIGN KEY constraints
SchemaFks ==
    { [child |-> "orders", col |-> "customer_id", parent |-> "customers", pcol |-> "id"] }

\* ------------------------------------------- string literals of the source
S_character == <<"c","h","a","r","a","c","t","e","r">>
S_text == <<"t","e","x","t">>
S_integer == <<"i","n","t","e","g","e","r">>
S_bigint == <<"b","i","g","i","n","t">>
S_smallint == <<"s","m","a","l","l","i","n","t">>
S_numeric == <<"n","u","m","e","r","i","c">>
S_double == <<"d","o","u","b","l","e">>
S_real == <<"r","e","a","l">>
S_double_precision == <<"d","o","u","b","l","e"," ","p","r","e","c","i","s","i","o","n">>
S_boolean == <<"b","o","o","l","e","a","n">>
S_date == <<"d","a","t","e">>
S_timestamp == <<"t","i","m","e","s","t","a","m","p">>
S_email == <<"e","m","a","i","l">>
S_true == <<"t","r","u","e">>
S_t == <<"t">>
S_1 == <<"1">>
S_yes == <<"y","e","s">>
S_y == <<"y">>
S_false == <<"f","a","l","s","e">>
S_f == <<"f">>
S_0 == <<"0">>
S_no == <<"n","o">>
S_n == <<"n">>

TrueTokens == {S_true, S_t, S_1, S_yes, S_y}
FalseTokens == {S_false, S_f, S_0, S_no, S_n}

PyBool(b) == [k |-> "bool", b |-> b]
\* a float parsed from "digits[.digits]": num / 10^scale
PyFloat(num, scale) == [k |-> "float", num |-> num, scale |-> scale]

\* the strings float() accepts, over the modelled alphabet: optional sign, then
\* digits with at most one point and at least one digit
IsFloatLiteral(s) ==
    LET body == IF s # <<>> /\ Head(s) \in {"+", "-"} THEN Tail(s) ELSE s
    IN  /\ \E i \in 1..Len(body) : IsDigit(body[i])
        /\ \A i \in 1..Len(body) : IsDigit(body[i]) \/ body[i] = "."
        /\ Cardinality({i \in 1..Len(body) : body[i] = "."}) <= 1

\* float(s) for a string float() accepts
FloatOf(s) ==
    LET neg == Head(s) = "-"
        body == IF Head(s) \in {"+", "-"} THEN Tail(s) ELSE s
        dots == {i \in 1..Len(body) : body[i] = "."}
        dot == IF dots = {} THEN Len(body) + 1 ELSE CHOOSE i \in dots : TRUE
        ds == SubSeq(body, 1, dot - 1) \o SubSeq(body, dot + 1, Len(body))
        v == DigitsVal(ds)
    IN  PyFloat(IF neg THEN 0 - v ELSE v, Len(body) - dot + (IF dots = {} THEN 1 ELSE 0))

\* ------------------------------------------------------------ ValueCoercion
\* what the user types for a column value: Interface.get_values_for_columns
\* and Interface.get_single_value
RawInputs == { <<>>, <<" ">>, <<"1">>, <<"x">> }
ValueInputs == { <<>>, <<" ", "1">>, <<"x">> }
SchemaTypes == {T_integer, T_text, T_uuid}

CastOk(v) == [ok |-> TRUE, val |-> v]
CastError == [ok |-> FALSE, val |-> PyNone]

\* a faulty cast without the 'if s == "": return None' test
CastValueFromInputNoBlankTest(value, data_type) ==
    LET dt == Lower(data_type)
        s == Strip(value)
    IN  IF Contains(dt, S_character) \/ Contains(dt, S_text) THEN CastOk(PyStr(s))
        ELSE IF StartsWith(dt, S_integer) \/ dt \in {S_bigint, S_smallint}
             THEN IF IsIntLiteral(s) THEN CastOk(PyInt(IntOf(s))) ELSE CastError
        ELSE IF StartsWith(dt, S_numeric) \/ StartsWith(dt, S_double) \/ StartsWith(dt, S_real)
             THEN IF IsFloatLiteral(s) THEN CastOk(FloatOf(s)) ELSE CastError
        ELSE IF dt = S_boolean
             THEN IF Lower(s) \in TrueTokens THEN CastOk(PyBool(TRUE))
                  ELSE IF Lower(s) \in FalseTokens THEN CastOk(PyBool(FALSE))
                  ELSE CastError
        ELSE CastOk(PyStr(s))

\* Database._cast_value_from_input for a string value
CastValueFromInput(value, data_type) ==
    LET dt == Lower(data_type)
        s == Strip(value)
    IN  IF s = <<>> THEN CastOk(PyNone)
        ELSE IF Contains(dt, S_character) \/ Contains(dt, S_text) THEN CastOk(PyStr(s))
        ELSE IF StartsWith(dt, S_integer) \/ dt \in {S_bigint, S_smallint}
             THEN IF IsIntLiteral(s) THEN CastOk(PyInt(IntOf(s))) ELSE CastError
        ELSE IF StartsWith(dt, S_numeric) \/ StartsWith(dt, S_double) \/ StartsWith(dt, S_real)
             THEN IF IsFloatLiteral(s) THEN CastOk(FloatOf(s)) ELSE CastError
        ELSE IF dt = S_boolean
             THEN IF Lower(s) \in TrueTokens THEN CastOk(PyBool(TRUE))
                  ELSE IF Lower(s) \in FalseTokens THEN CastOk(PyBool(FALSE))
                  ELSE CastError
        ELSE IF Contains(dt, S_date) \/ Contains(dt, S_timestamp) THEN CastOk(PyStr(s))
        ELSE CastOk(PyStr(s))

\* the casts of the modelled inputs, computed once
CastTable ==
    [v \in RawInputs \cup ValueInputs |-> [dt \in SchemaTypes |-> CastValueFromInput(v, dt)]]
Cast(v, dt) == CastTable[v][dt]

\* ------------------------------------------------------------ SchemaCatalog
\* Database.table_exists
TableExists(t) == t \in Tables

\* Database.get_columns / get_column_types: the ordered (name, data_type) pairs
GetColumns(t) == SchemaTable[t]

ColNamesTable == [t \in TableInputs |-> {SchemaTable[t][i].name : i \in 1..Len(SchemaTable[t])}]
ColNames(t) == ColNamesTable[t]
ColRecTable ==
    [t \in TableInputs |-> [c \in ColNamesTable[t] |->
        SchemaTable[t][CHOOSE i \in 1..Len(SchemaTable[t]) : SchemaTable[t][i].name = c]]]
ColNameSeq(t) == [i \in 1..Len(GetColumns(t)) |-> GetColumns(t)[i].name]
ColRec(t, c) == ColRecTable[t][c]
ColType(t, c) == ColRec(t, c).type

\* Database.get_child_tables
GetChildTables(parent) == {fk.child : fk \in {e \in SchemaFks : e.parent = parent}}

\* Database._find_pk_column ("" stands for None)
FindPkColumn(t) == SchemaPk(t)

\* generate_rows_sql: fk_map, column -> (foreign table, foreign column)
FkMapCols(t) == {fk.col : fk \in {e \in SchemaFks : e.child = t}}
FkMap(t, c) == CHOOSE fk \in SchemaFks : fk.child = t /\ fk.col = c

\* generate_rows_sql: columns with is_nullable = 'NO' and column_default IS NULL
NotNullCols(t) ==
    {GetColumns(t)[i].name : i \in {j \in 1..Len(GetColumns(t)) :
        GetColumns(t)[j].notnull /\ ~GetColumns(t)[j].hasdefault}}

\* ------------------------------------------------- the database engine
\* What the session's engine does with a statement the code sends it.
EngineOk(v) == [ok |-> TRUE, val |-> v]
EngineError == [ok |-> FALSE, val |-> Null]

\* a bound parameter compared with, or stored into, a column of type dt: the
\* engine reads a quoted literal with the column type's input function
ParamToSql(dt, v) ==
    IF v.k = "null" THEN EngineOk(Null)
    ELSE IF dt = T_integer
         THEN IF v.k = "int" THEN EngineOk(v)
              ELSE IF v.k = "str" /\ IsIntLiteral(Strip(v.s))
                   THEN EngineOk(PyInt(IntOf(Strip(v.s))))
              ELSE EngineError
    ELSE IF dt = T_text
         THEN IF v.k = "str" THEN EngineOk(v) ELSE EngineError
    ELSE EngineError

\* the value of a SELECT expression assigned to a column of type dt
ExprToSql(dt, v) ==
    IF v.k = "null" THEN EngineOk(Null)
    ELSE IF dt = T_integer
         THEN IF v.k = "int" THEN EngineOk(v) ELSE EngineError
    ELSE IF dt = T_text
         THEN IF v.k = "str" THEN EngineOk(v) ELSE EngineError
    ELSE EngineError

\* NOT NULL, PRIMARY KEY and FOREIGN KEY constraints over the whole database
Consistent(d) ==
    /\ \A t \in Tables : \A i \in 1..Len(d[t]) :
          /\ \A c \in ColNames(t) : ColRec(t, c).notnull => d[t][i][c] # Null
          /\ SchemaPk(t) # "" =>
                \A j \in 1..Len(d[t]) : j # i => d[t][j][SchemaPk(t)] # d[t][i][SchemaPk(t)]
    /\ \A fk \in SchemaFks : \A i \in 1..Len(d[fk.child]) :
          \/ d[fk.child][i][fk.col] = Null
          \/ \E j \in 1..Len(d[fk.parent]) :
                d[fk.parent][j][fk.pcol] = d[fk.child][i][fk.col]

\* a row [column |-> value] with its values computed once
Row(f) == f @@ f

HasDefaultCols(t) == {c \in ColNames(t) : ColRec(t, c).hasdefault}

PosOf(seq, x) == CHOOSE i \in 1..Len(seq) : seq[i] = x
InSeq(seq, x) == \E i \in 1..Len(seq) : seq[i] = x

\* INSERT INTO t (cols) VALUES (vals): columns left out take their default
\* (nextval of the serial sequence, here nv) or NULL. The position of a
\* sequence is not part of the state: nextval may return any value that
\* SerialStarts allows, one already in the table included.
ExecInsert(d, t, cols, vals, nv) ==
    LET co == [i \in 1..Len(cols) |-> ParamToSql(ColType(t, cols[i]), vals[i])]
        row == Row([c \in ColNames(t) |->
                      IF InSeq(cols, c) THEN co[PosOf(cols, c)].val
                      ELSE IF ColRec(t, c).hasdefault THEN PyInt(nv)
                      ELSE Null])
        nd == [d EXCEPT ![t] = Append(@, row)]
    IN  IF \E i \in 1..Len(cols) : ~co[i].ok THEN [ok |-> FALSE, db |-> d]
        ELSE IF ~Consistent(nd) THEN [ok |-> FALSE, db |-> d]
        ELSE [ok |-> TRUE, db |-> nd]

\* UPDATE t SET col = val WHERE idcol = rowid
ExecUpdate(d, t, col, val, idcol, rowid) ==
    LET cv == ParamToSql(ColType(t, col), val)
        cid == ParamToSql(ColType(t, idcol), PyStr(rowid))
        hit == {i \in 1..Len(d[t]) : cid.val # Null /\ d[t][i][idcol] = cid.val}
        nd == [d EXCEPT ![t] =
                 [i \in 1..Len(d[t]) |-> IF i \in hit THEN [d[t][i] EXCEPT ![col] = cv.val]
                                         ELSE d[t][i]]]
    IN  IF ~cv.ok \/ ~cid.ok \/ ~Consistent(nd) THEN [ok |-> FALSE, db |-> d, rowcount |-> 0]
        ELSE [ok |-> TRUE, db |-> nd, rowcount |-> Cardinality(hit)]

RECURSIVE Without(_, _)
Without(rows, hit) ==
    IF rows = <<>> THEN <<>>
    ELSE IF Len(rows) \in hit THEN Without(SubSeq(rows, 1, Len(rows) - 1), hit)
    ELSE Append(Without(SubSeq(rows, 1, Len(rows) - 1), hit), rows[Len(rows)])

\* DELETE FROM t WHERE idcol = rowid
ExecDelete(d, t, idcol, rowid) ==
    LET cid == ParamToSql(ColType(t, idcol), PyStr(rowid))
        hit == {i \in 1..Len(d[t]) : cid.val # Null /\ d[t][i][idcol] = cid.val}
        nd == [d EXCEPT ![t] = Without(@, hit)]
    IN  IF ~cid.ok \/ ~Consistent(nd) THEN [ok |-> FALSE, db |-> d, rowcount |-> 0]
        ELSE [ok |-> TRUE, db |-> nd, rowcount |-> Cardinality(hit)]

\* row k of INSERT INTO t (cols) SELECT exprs FROM generate_series(1, n), vals[k]
\* being the values the expressions took for that row and nv + k its serial value
BulkRow(t, cols, vals, nv, k) ==
    Row([c \in ColNames(t) |->
            IF InSeq(cols, c) THEN ExprToSql(ColType(t, c), vals[k][PosOf(cols, c)]).val
            ELSE IF ColRec(t, c).hasdefault THEN PyInt(nv + k)
            ELSE Null])

\* the bulk INSERT: one statement, which succeeds or fails as a whole
ExecBulk(d, t, cols, vals, nv, count) ==
    LET typeErr == \E k \in 1..count : \E j \in 1..Len(cols) :
                      ~ExprToSql(ColType(t, cols[j]), vals[k][j]).ok
        nd == [d EXCEPT ![t] = @ \o [k \in 1..count |-> BulkRow(t, cols, vals, nv, k)]]
    IN  IF typeErr \/ ~Consistent(nd) THEN [ok |-> FALSE, db |-> d]
        ELSE [ok |-> TRUE, db |-> nd]

\* ------------------------------------------------- the psycopg2 session
\* connection status: "idle" (no transaction), "intrans" (a transaction is
\* open), "aborted" (a statement failed; every statement until the next
\* rollback raises InFailedSqlTransaction), "closed"

\* cursor.execute of a statement that succeeds: the first one opens a transaction
Begin(tx) == IF tx = "idle" THEN "intrans" ELSE tx

\* ---------------------------------------------------------------- state
VARIABLES
    db,       \* table -> the rows the table holds (all of them committed)
    txn,      \* connection status
    running,  \* the menu loop has not exited
    out       \* what the last handler did: statement sent, result shown

vars == <<db, txn, running, out>>

\* the data statement a handler sent: kind, column list, the columns bound to
\* NULL (INSERT) and the generation expressions (bulk INSERT)
NoStmt == [kind |-> "none", cols |-> <<>>, nulls |-> {}, exprs |-> <<>>]
Stmt(kind, cols, nulls, exprs) ==
    [kind |-> kind, cols |-> cols, nulls |-> nulls, exprs |-> exprs]

\* the outcome of one Database method
Res(result, d, tx, stmt, commit, rollback, ret) ==
    [result |-> result, db |-> d, txn |-> tx, stmt |-> stmt,
     commit |-> commit, rollback |-> rollback, ret |-> ret]

\* what a handler leaves behind for the user to see
Out(op, t, result, stmt) ==
    [op |-> op, table |-> t, result |-> result, stmt |-> stmt,
     given |-> {}, warned |-> {}, asked |-> FALSE, ret |-> 0,
     commit |-> FALSE, rollback |-> FALSE]

OutOf(op, t, r) ==
    [Out(op, t, r.result, r.stmt) EXCEPT
        !.commit = r.commit, !.rollback = r.rollback, !.ret = r.ret]

\* ------------------------------------------------------------ user input
\* the tables tried in each flow
ShowInputs == {"customers", "nosuch"}
AddInputs == {"customers", "orders", "events", "nosuch"}
UpdateInputs == {"customers", "events", "nosuch"}
DeleteInputs == {"customers", "orders", "events", "nosuch"}
\* Interface.get_id, get_update_identifier: answers are stripped
IdInputs == {Strip(r) : r \in { <<"1", " ">>, <<"x">> }}
\* Interface.get_row_count
CountInputs == {<<Digits[n + 1]>> : n \in 0..MaxRows} \cup {<<"x">>}
AnswerInputs == { <<" ","Y","e","s">>, <<"n","o">> }

TotalRows(d) ==
    Len(d["customers"]) + Len(d["orders"]) + Len(d["codes"]) + Len(d["events"])
    + Len(d["tokens"])

\* the bound of the model: rows held
WithinBounds(d) == TotalRows(d) <= MaxRows

\* where a serial sequence can stand when a statement draws from it: its rows
\* get the next values, start + 1, start + 2, ...
SerialStarts == {0, 1}

\* the positions of the sequence of t for an INSERT of n rows (0 when the
\* statement takes no default)
SerialChoices(t, cols, n) ==
    IF \E c \in HasDefaultCols(t) : ~InSeq(cols, c) THEN SerialStarts ELSE {0}

\* Database.__init__: autocommit = False, no statement sent yet
Init ==
    /\ db = [t \in Tables |-> <<>>]
    /\ txn = "idle"
    /\ running = TRUE
    /\ out = Out("init", "", "ok", NoStmt)

\* ------------------------------------------------------------ insert
\* a faulty get_values_for_columns that keeps blank answers in the dict
GetValuesForColumnsKeepBlank(t, inp) == [c \in ColNames(t) |-> inp[c]]

\* Interface.get_values_for_columns: blank answers are skipped
GetValuesForColumns(t, inp) ==
    [c \in {x \in ColNames(t) : Strip(inp[x]) # <<>>} |-> inp[c]]

\* insert_entry_validated: the columns of the INSERT, in col_types order
InsertCols(t, values) ==
    SelectSeq(ColNameSeq(t), LAMBDA c : c \in DOMAIN values)

\* a faulty loop that binds the typed string without casting it
InsertValUncast(t, values, c) ==
    IF values[c] = <<>> THEN CastOk(PyNone) ELSE CastOk(PyStr(values[c]))

\* insert_entry_validated: the value bound for one column
InsertVal(t, values, c) ==
    IF values[c] = <<>> THEN CastOk(PyNone)
    ELSE Cast(values[c], ColType(t, c))

\* insert_entry_validated, once the columns and their casts are known
InsertExecute(d, tx, t, cols, casts, nv) ==
    LET vals == [i \in 1..Len(cols) |-> casts[i].val]
        st == Stmt("INSERT", cols, {cols[i] : i \in {j \in 1..Len(cols) : vals[j] = PyNone}}, <<>>)
        r == ExecInsert(d, t, cols, vals, nv + 1)
    IN  IF \E i \in 1..Len(cols) : ~casts[i].ok
        THEN Res("CastError", d, tx, NoStmt, FALSE, FALSE, 0)
        ELSE IF cols = <<>>
        THEN Res("NoInsertableColumns", d, tx, NoStmt, FALSE, FALSE, 0)
        ELSE IF tx = "aborted"
        THEN Res("DatabaseError", d, tx, st, FALSE, FALSE, 0)
        ELSE IF ~r.ok
        THEN Res("DatabaseError", d, "aborted", st, FALSE, FALSE, 0)
        ELSE Res("ok", r.db, "idle", st, TRUE, FALSE, 1)

\* Database.insert_entry_validated
InsertEntryValidated(d, tx, t, values, nv) ==
    InsertExecute(d, tx, t, InsertCols(t, values),
                  [i \in 1..Len(InsertCols(t, values)) |->
                      InsertVal(t, values, InsertCols(t, values)[i])], nv)

\* AppController.add_entry
AddEntry(t, inp) ==
    /\ running
    /\ IF txn = "aborted"
       THEN /\ out' = Out("add_entry", t, "DatabaseError", NoStmt)
            /\ UNCHANGED <<db, txn>>
       ELSE IF ~TableExists(t)
       THEN /\ out' = Out("add_entry", t, "TableNotFound", NoStmt)
            /\ txn' = Begin(txn)
            /\ UNCHANGED db
       ELSE \E nv \in SerialChoices(t, InsertCols(t, GetValuesForColumns(t, inp)), 1) :
            \E r \in {InsertEntryValidated(db, Begin(txn), t,
                                           GetValuesForColumns(t, inp), nv)} :
                /\ WithinBounds(r.db)
                /\ db' = r.db
                /\ txn' = r.txn
                /\ out' = [OutOf("add_entry", t, r) EXCEPT
                             !.given = {c \in ColNames(t) : Strip(inp[c]) # <<>>}]
    /\ UNCHANGED running

\* ------------------------------------------------------------ update
\* a faulty update_entry_validated without the "if id_col is None" test: the
\* UPDATE is built with a missing key column and the engine rejects it
UpdateExecuteNoPkCheck(d, tx, t, column, row_id, casted, id_col) ==
    LET st == Stmt("UPDATE", <<column>>, IF casted.val = PyNone THEN {column} ELSE {}, <<>>)
    IN  IF ~casted.ok
        THEN Res("CastError", d, tx, NoStmt, FALSE, FALSE, 0)
        ELSE IF tx = "aborted"
        THEN Res("DatabaseError", d, tx, NoStmt, FALSE, FALSE, 0)
        ELSE IF id_col = "" \/ ~ExecUpdate(d, t, column, casted.val, id_col, row_id).ok
        THEN Res("DatabaseError", d, "aborted", st, FALSE, FALSE, 0)
        ELSE Res(IF ExecUpdate(d, t, column, casted.val, id_col, row_id).rowcount > 0
                 THEN "ok" ELSE "NoRows",
                 ExecUpdate(d, t, column, casted.val, id_col, row_id).db, "idle", st,
                 TRUE, FALSE, ExecUpdate(d, t, column, casted.val, id_col, row_id).rowcount)

\* update_entry_validated, once the cast and the primary key are known
UpdateExecute(d, tx, t, column, row_id, casted, id_col) ==
    LET st == Stmt("UPDATE", <<column>>, IF casted.val = PyNone THEN {column} ELSE {}, <<>>)
        r == ExecUpdate(d, t, column, casted.val, id_col, row_id)
    IN  IF ~casted.ok
        THEN Res("CastError", d, tx, NoStmt, FALSE, FALSE, 0)
        ELSE IF tx = "aborted"
        THEN Res("DatabaseError", d, tx, NoStmt, FALSE, FALSE, 0)
        ELSE IF id_col = ""
        THEN Res("PrimaryKeyMissing", d, Begin(tx), NoStmt, FALSE, FALSE, 0)
        ELSE IF ~r.ok
        THEN Res("DatabaseError", d, "aborted", st, FALSE, FALSE, 0)
        ELSE Res(IF r.rowcount > 0 THEN "ok" ELSE "NoRows", r.db, "idle", st,
                 TRUE, FALSE, r.rowcount)

\* Database.update_entry_validated
UpdateEntryValidated(d, tx, t, column, row_id, new_value) ==
    IF column \notin ColNames(t)
    THEN Res("UnknownColumn", d, tx, NoStmt, FALSE, FALSE, 0)
    ELSE UpdateExecute(d, tx, t, column, row_id,
                       Cast(new_value, ColType(t, column)),
                       FindPkColumn(t))

\* AppController.update_entry
UpdateEntry(t, column, row_id, new_value) ==
    /\ running
    /\ IF txn = "aborted"
       THEN /\ out' = Out("update_entry", t, "DatabaseError", NoStmt)
            /\ UNCHANGED <<db, txn>>
       ELSE IF ~TableExists(t) \/ column \notin ColNames(t)
       THEN /\ out' = Out("update_entry", t, "TableNotFound", NoStmt)
            /\ txn' = Begin(txn)
            /\ UNCHANGED db
       ELSE \E r \in {UpdateEntryValidated(db, Begin(txn), t, column,
                                           row_id, new_value)} :
                /\ db' = r.db
                /\ txn' = r.txn
                /\ out' = OutOf("update_entry", t, r)
    /\ UNCHANGED running

\* ------------------------------------------------------------ delete
\* delete_entry, once the primary key is known
DeleteExecute(d, tx, t, row_id, id_col) ==
    LET st == Stmt("DELETE", <<>>, {}, <<>>)
        r == ExecDelete(d, t, id_col, row_id)
    IN  IF tx = "aborted"
        THEN Res("DatabaseError", d, tx, NoStmt, FALSE, FALSE, 0)
        ELSE IF id_col = ""
        THEN Res("PrimaryKeyMissing", d, Begin(tx), NoStmt, FALSE, FALSE, 0)
        ELSE IF ~r.ok
        THEN Res("DatabaseError", d, "aborted", st, FALSE, FALSE, 0)
        ELSE Res(IF r.rowcount > 0 THEN "ok" ELSE "NoRows", r.db, "idle", st,
                 TRUE, FALSE, r.rowcount)

\* Database.delete_entry
DeleteEntryModel(d, tx, t, row_id) ==
    DeleteExecute(d, tx, t, row_id, FindPkColumn(t))

\* Interface.confirm
Confirm(ans) == Lower(Strip(ans)) \in {S_y, S_yes}

\* AppController.delete_entry: whether the warning is shown and the user asked
DeleteWarns(children) == children # {}

\* a faulty delete flow that ignores the answer to the confirmation
DeleteProceedsAlways(children, ans) == TRUE

\* AppController.delete_entry: whether delete_entry of the model is reached
DeleteProceeds(children, ans) == children = {} \/ Confirm(ans)

\* AppController.delete_entry
DeleteEntry(t, row_id, ans) ==
    /\ running
    /\ IF txn = "aborted"
       THEN /\ out' = Out("delete_entry", t, "DatabaseError", NoStmt)
            /\ UNCHANGED <<db, txn>>
       ELSE IF ~DeleteProceeds(GetChildTables(t), ans)
       THEN /\ out' = [Out("delete_entry", t, "Cancelled", NoStmt) EXCEPT
                         !.warned = IF DeleteWarns(GetChildTables(t))
                                    THEN GetChildTables(t) ELSE {},
                         !.asked = DeleteWarns(GetChildTables(t))]
            /\ txn' = Begin(txn)
            /\ UNCHANGED db
       ELSE \E r \in {DeleteEntryModel(db, Begin(txn), t, row_id)} :
                /\ db' = r.db
                /\ txn' = r.txn
                /\ out' = [OutOf("delete_entry", t, r) EXCEPT
                             !.warned = IF DeleteWarns(GetChildTables(t))
                                        THEN GetChildTables(t) ELSE {},
                             !.asked = DeleteWarns(GetChildTables(t))]
    /\ UNCHANGED running

\* ------------------------------------------------ SyntheticDataGenerator
\* stand-ins for substring(md5(random()::text), 1, n): two distinct hex tokens
GenTokens == { <<"a">>, <<"b">> }
\* stand-in for the values of floor(random()*10000) and the like: no
\* constraint of the schema reads them
GenInts == {1}
S_gmail == <<"@","g","m","a","i","l",".","c","o","m">>

Expr(kind, ftable, fcol) == [kind |-> kind, ftable |-> ftable, fcol |-> fcol]

\* a faulty type dispatch without the "col_name in fk_map" branch
GenExprNoFk(t, col_name, data_type) ==
    LET dt == Lower(data_type)
    IN  IF Contains(Lower(NameChars(col_name)), S_email) THEN Expr("email", "", "")
        ELSE IF StartsWith(dt, S_integer) \/ dt \in {S_bigint, S_smallint}
             THEN Expr("int", "", "")
        ELSE IF StartsWith(dt, S_numeric) \/ dt \in {S_real, S_double_precision}
             THEN Expr("numeric", "", "")
        ELSE IF dt = S_boolean THEN Expr("boolean", "", "")
        ELSE IF Contains(dt, S_timestamp) THEN Expr("timestamp", "", "")
        ELSE IF Contains(dt, S_date) THEN Expr("date", "", "")
        ELSE IF Contains(dt, S_character) \/ Contains(dt, S_text) THEN Expr("text", "", "")
        ELSE Expr("null", "", "")

\* generate_rows_sql: the generation expression of one insertable column
GenExpr(t, col_name, data_type) ==
    LET dt == Lower(data_type)
    IN  IF col_name \in FkMapCols(t)
        THEN Expr("fk", FkMap(t, col_name).parent, FkMap(t, col_name).pcol)
        ELSE IF Contains(Lower(NameChars(col_name)), S_email) THEN Expr("email", "", "")
        ELSE IF StartsWith(dt, S_integer) \/ dt \in {S_bigint, S_smallint}
             THEN Expr("int", "", "")
        ELSE IF StartsWith(dt, S_numeric) \/ dt \in {S_real, S_double_precision}
             THEN Expr("numeric", "", "")
        ELSE IF dt = S_boolean THEN Expr("boolean", "", "")
        ELSE IF Contains(dt, S_timestamp) THEN Expr("timestamp", "", "")
        ELSE IF Contains(dt, S_date) THEN Expr("date", "", "")
        ELSE IF Contains(dt, S_character) \/ Contains(dt, S_text) THEN Expr("text", "", "")
        ELSE Expr("null", "", "")

\* a faulty filter whose query forgets is_nullable = 'NO'
GenSelectsIgnoreNullable(t, c) == ~ColRec(t, c).hasdefault

\* a faulty filter whose query forgets column_default IS NULL
GenSelectsIgnoreDefault(t, c) == ColRec(t, c).notnull

\* generate_rows_sql: the loop's filter, col_name in not_null_cols
GenSelects(t, c) == c \in NotNullCols(t)

\* generate_rows_sql: col_names and select_exprs of each table, computed once
GenColsTable ==
    [t \in TableInputs |-> SelectSeq(ColNameSeq(t), LAMBDA c : GenSelects(t, c))]
GenExprsTable ==
    [t \in TableInputs |-> [i \in 1..Len(GenColsTable[t]) |->
        GenExpr(t, GenColsTable[t][i], ColType(t, GenColsTable[t][i]))]]

\* generate_rows_sql: col_names
GenCols(t) == GenColsTable[t]

\* generate_rows_sql: select_exprs
GenExprs(t) == GenExprsTable[t]

\* the values an expression can take when the engine evaluates it against d
GenValues(d, e) ==
    CASE e.kind = "fk" ->
            IF d[e.ftable] = <<>> THEN {Null}
            ELSE {d[e.ftable][i][e.fcol] : i \in 1..Len(d[e.ftable])}
      [] e.kind = "email" -> {PyStr(tok \o S_gmail) : tok \in GenTokens}
      [] e.kind = "int" -> {PyInt(i) : i \in GenInts}
      [] e.kind = "numeric" -> {PyFloat(i, 2) : i \in GenInts}
      [] e.kind = "boolean" -> {PyBool(TRUE), PyBool(FALSE)}
      [] e.kind = "timestamp" -> {[k |-> "timestamp", day |-> i] : i \in GenInts}
      [] e.kind = "date" -> {[k |-> "date", day |-> i] : i \in GenInts}
      [] e.kind = "text" -> {PyStr(tok) : tok \in GenTokens}
      [] OTHER -> {Null}

\* every way the engine can evaluate the expressions for count rows
BulkChoices(d, exprs, count) ==
    LET all == UNION {GenValues(d, exprs[j]) : j \in 1..Len(exprs)}
        tuples == {f \in [1..Len(exprs) -> all] :
                      \A j \in 1..Len(exprs) : f[j] \in GenValues(d, exprs[j])}
    IN  [1..count -> tuples]

\* a faulty try block whose except branch re-raises without rollback
GenerateFinishNoRollback(d, st, count, r) ==
    IF r.ok THEN Res("ok", r.db, "idle", st, TRUE, FALSE, count)
    ELSE Res("DatabaseError", d, "aborted", st, FALSE, FALSE, 0)

\* generate_rows_sql: the try block around the bulk INSERT
GenerateFinish(d, st, count, r) ==
    IF r.ok THEN Res("ok", r.db, "idle", st, TRUE, FALSE, count)
    ELSE Res("DatabaseError", d, "idle", st, FALSE, TRUE, 0)

\* generate_rows_sql, once the metadata is read
GenerateExecute(d, tx, t, count, cols, exprs, vals, nv) ==
    IF tx = "aborted"
    THEN Res("DatabaseError", d, tx, NoStmt, FALSE, FALSE, 0)
    ELSE IF GetColumns(t) = <<>>
    THEN Res("TableNotFound", d, Begin(tx), NoStmt, FALSE, FALSE, 0)
    ELSE IF cols = <<>>
    THEN Res("NoInsertableColumns", d, Begin(tx), NoStmt, FALSE, FALSE, 0)
    ELSE GenerateFinish(d, Stmt("BULK", cols, {}, exprs), count,
                        ExecBulk(d, t, cols, vals, nv, count))

\* Database.generate_rows_sql
GenerateRowsSql(d, tx, t, count, vals, nv) ==
    GenerateExecute(d, tx, t, count, GenCols(t), GenExprs(t), vals, nv)

\* AppController.generate_data_sql
GenerateDataSql(t, countRaw) ==
    /\ running
    /\ IF ~IsIntLiteral(countRaw) \/ IntOf(countRaw) <= 0
       THEN /\ out' = Out("generate", t, "InvalidCount", NoStmt)
            /\ UNCHANGED <<db, txn>>
       ELSE \E vals \in BulkChoices(db, GenExprs(t), IntOf(countRaw)) :
            \E nv \in SerialChoices(t, GenCols(t), IntOf(countRaw)) :
            \E r \in {GenerateRowsSql(db, txn, t, IntOf(countRaw), vals, nv)} :
                /\ WithinBounds(r.db)
                /\ db' = r.db
                /\ txn' = r.txn
                /\ out' = OutOf("generate", t, r)
    /\ UNCHANGED running

\* ------------------------------------------------------------ read-only
\* AppController.show_tables
ShowTables ==
    /\ running
    /\ IF txn = "aborted"
       THEN /\ out' = Out("show_tables", "", "DatabaseError", NoStmt)
            /\ UNCHANGED txn
       ELSE /\ out' = Out("show_tables", "", "ok", NoStmt)
            /\ txn' = Begin(txn)
    /\ UNCHANGED <<db, running>>

\* AppController.show_columns
ShowColumns(t) ==
    /\ running
    /\ IF txn = "aborted"
       THEN /\ out' = Out("show_columns", t, "DatabaseError", NoStmt)
            /\ UNCHANGED txn
       ELSE /\ out' = Out("show_columns", t,
                          IF TableExists(t) THEN "ok" ELSE "TableNotFound", NoStmt)
            /\ txn' = Begin(txn)
    /\ UNCHANGED <<db, running>>

\* ------------------------------------------------------------ search
\* a faulty literal that embeds the bound without trying float()
LiteralForNumericUnparsed(s) == s

\* Interface._literal_for_numeric
LiteralForNumeric(s) == IF IsFloatLiteral(s) THEN s ELSE S_0

RECURSIVE QuoteBody(_)
QuoteBody(s) ==
    IF s = <<>> THEN <<>>
    ELSE (IF Head(s) = "'" THEN <<"'", "'">> ELSE <<Head(s)>>) \o QuoteBody(Tail(s))

\* Interface._quote_literal
QuoteLiteral(s) == <<"'">> \o QuoteBody(s) \o <<"'">>

\* one comparison of a filter: "table"."column" op literal
Atom(t, c, op, lit) == [table |-> t, column |-> c, op |-> op, lit |-> lit]

\* a faulty build_filter_clause whose numeric test leaves out 'real'
BuildFilterClauseNoReal(t, c, data_type, a, b) ==
    LET dt == Lower(data_type)
        lo == Strip(a)
        hi == Strip(b)
    IN  IF StartsWith(dt, S_integer)
           \/ dt \in {S_bigint, S_smallint, S_numeric, S_double_precision}
        THEN (IF lo # <<>> THEN <<Atom(t, c, ">=", LiteralForNumeric(lo))>> ELSE <<>>)
             \o (IF hi # <<>> THEN <<Atom(t, c, "<=", LiteralForNumeric(hi))>> ELSE <<>>)
        ELSE IF Contains(dt, S_character) \/ dt = S_text
        THEN IF lo = <<>> THEN <<>> ELSE <<Atom(t, c, "ILIKE", QuoteLiteral(lo))>>
        ELSE IF dt = S_boolean
        THEN IF Lower(lo) \in TrueTokens THEN <<Atom(t, c, "=", S_true)>>
             ELSE IF Lower(lo) \in FalseTokens THEN <<Atom(t, c, "=", S_false)>>
             ELSE <<>>
        ELSE IF Contains(dt, S_date) \/ Contains(dt, S_timestamp)
        THEN (IF lo # <<>> THEN <<Atom(t, c, ">=", QuoteLiteral(lo))>> ELSE <<>>)
             \o (IF hi # <<>> THEN <<Atom(t, c, "<=", QuoteLiteral(hi))>> ELSE <<>>)
        ELSE IF lo = <<>> THEN <<>> ELSE <<Atom(t, c, "=", QuoteLiteral(lo))>>

\* Interface.build_filter_clause; a and b are the answers to its prompts, the
\* result is the comparisons joined with AND, none standing for TRUE
BuildFilterClause(t, c, data_type, a, b) ==
    LET dt == Lower(data_type)
        lo == Strip(a)
        hi == Strip(b)
    IN  IF StartsWith(dt, S_integer)
           \/ dt \in {S_bigint, S_smallint, S_numeric, S_double_precision, S_real}
        THEN (IF lo # <<>> THEN <<Atom(t, c, ">=", LiteralForNumeric(lo))>> ELSE <<>>)
             \o (IF hi # <<>> THEN <<Atom(t, c, "<=", LiteralForNumeric(hi))>> ELSE <<>>)
        ELSE IF Contains(dt, S_character) \/ dt = S_text
        THEN IF lo = <<>> THEN <<>> ELSE <<Atom(t, c, "ILIKE", QuoteLiteral(lo))>>
        ELSE IF dt = S_boolean
        THEN IF Lower(lo) \in TrueTokens THEN <<Atom(t, c, "=", S_true)>>
             ELSE IF Lower(lo) \in FalseTokens THEN <<Atom(t, c, "=", S_false)>>
             ELSE <<>>
        ELSE IF Contains(dt, S_date) \/ Contains(dt, S_timestamp)
        THEN (IF lo # <<>> THEN <<Atom(t, c, ">=", QuoteLiteral(lo))>> ELSE <<>>)
             \o (IF hi # <<>> THEN <<Atom(t, c, "<=", QuoteLiteral(hi))>> ELSE <<>>)
        ELSE IF lo = <<>> THEN <<>> ELSE <<Atom(t, c, "=", QuoteLiteral(lo))>>

\* a faulty lookup that finds only the edges from t1 to t2
JoinEdgesFromFirst(t1, t2) == {e \in SchemaFks : e.child = t1 /\ e.parent = t2}

\* find_join_expression: the foreign-key edges between t1 and t2, either way
JoinEdges(t1, t2) ==
    {e \in SchemaFks : \/ (e.child = t1 /\ e.parent = t2)
                       \/ (e.child = t2 /\ e.parent = t1)}

NoEdge == [child |-> "", col |-> "", parent |-> "", pcol |-> ""]

\* multi_attribute_search: the FROM clause for the row fetchone() returned
FromClause(t1, t2, e) ==
    IF t2 = "" THEN [join |-> "none", t1 |-> t1, t2 |-> t2, on |-> NoEdge]
    ELSE IF e = NoEdge THEN [join |-> "cross", t1 |-> t1, t2 |-> t2, on |-> NoEdge]
    ELSE [join |-> "inner", t1 |-> t1, t2 |-> t2, on |-> e]

\* the engine reading one comparison: a quoted literal is read with the
\* column type's input function, a bare numeric literal as a number
AtomOk(atom) ==
    \/ Head(atom.lit) # "'"
    \/ ColType(atom.table, atom.column) = T_text
    \/ ParamToSql(ColType(atom.table, atom.column),
                  PyStr(SubSeq(atom.lit, 2, Len(atom.lit) - 1))).ok

\* Database.execute_raw_select
ExecuteRawSelect(tx, where) ==
    IF tx = "aborted" THEN [result |-> "DatabaseError", txn |-> tx]
    ELSE IF \E i \in 1..Len(where) : ~AtomOk(where[i])
         THEN [result |-> "DatabaseError", txn |-> "aborted"]
    ELSE [result |-> "ok", txn |-> Begin(tx)]

\* the table pairs and filter answers tried in the search
SearchPairs ==
    { <<"orders", "customers">>, <<"customers", "orders">>,
      <<"codes", "tokens">>, <<"codes", "">>, <<"codes", "nosuch">> }
FilterInputs == { <<>>, <<"x">> }
NoFilter == [table |-> "", column |-> "", a |-> <<>>, b |-> <<>>]
FilterChoices(t1, t2) ==
    {NoFilter} \cup
    UNION {{[table |-> t, column |-> c, a |-> a, b |-> b] :
               c \in ColNames(t), a \in FilterInputs, b \in {<<>>}} :
           t \in ({t2} \cap Tables)}

\* multi_attribute_search: filters, for at most one filter
SearchFilters(f) ==
    IF f = NoFilter THEN <<>>
    ELSE BuildFilterClause(f.table, f.column, ColType(f.table, f.column), f.a, f.b)

\* AppController.multi_attribute_search
MultiAttributeSearch(t1, t2, f, e) ==
    /\ running
    /\ IF txn = "aborted"
       THEN /\ out' = Out("search", t1, "DatabaseError", NoStmt)
            /\ UNCHANGED txn
       ELSE IF ~TableExists(t1) \/ (t2 # "" /\ ~TableExists(t2))
       THEN /\ out' = Out("search", t1, "TableNotFound", NoStmt)
            /\ txn' = Begin(txn)
       ELSE \E r \in {ExecuteRawSelect(Begin(txn), SearchFilters(f))} :
                /\ txn' = r.txn
                /\ out' = [Out("search", t1, r.result,
                               Stmt("SELECT", <<t1, t2>>, {},
                                    <<FromClause(t1, t2, e)>>)) EXCEPT
                             !.warned = IF t2 # "" /\ e = NoEdge
                                        THEN {"no foreign key relation"} ELSE {}]
    /\ UNCHANGED <<db, running>>

\* ------------------------------------------------------------ reports
\* AppController.run_prepared_reports: the templates read tables of their own
\* and cast their parameters in the engine, which accepts or rejects them
RunPreparedReports(choice, accepted) ==
    /\ running
    /\ IF ~IsIntLiteral(Strip(choice)) \/ IntOf(Strip(choice)) < 1 \/ IntOf(Strip(choice)) > 3
       THEN /\ out' = Out("reports", "", "InvalidChoice", NoStmt)
            /\ UNCHANGED txn
       ELSE IF txn = "aborted"
       THEN /\ out' = Out("reports", "", "DatabaseError", NoStmt)
            /\ UNCHANGED txn
       ELSE /\ out' = Out("reports", "", IF accepted THEN "ok" ELSE "DatabaseError",
                          Stmt("REPORT", <<>>, {}, <<>>))
            /\ txn' = IF accepted THEN Begin(txn) ELSE "aborted"
    /\ UNCHANGED <<db, running>>

\* AppController.exit_app: closes the connection and leaves the loop
ExitApp ==
    /\ running
    /\ running' = FALSE
    /\ txn' = "closed"
    /\ out' = Out("exit", "", "ok", NoStmt)
    /\ UNCHANGED db

\* AppController.run: a choice that is no menu entry
InvalidChoice ==
    /\ running
    /\ out' = Out("menu", "", "InvalidChoice", NoStmt)
    /\ UNCHANGED <<db, txn, running>>

\* update_entry asks for the new value only once the column is found
UpdateValueInputs(t, c) == IF c \in ColNames(t) THEN ValueInputs ELSE {<<>>}

\* delete_entry asks for the confirmation only when there are child tables
DeleteAnswerInputs(t) == IF GetChildTables(t) = {} THEN {<<>>} ELSE AnswerInputs

\* AppController.run: one turn of the menu loop
Next ==
    \/ ShowTables
    \/ \E t \in ShowInputs : ShowColumns(t)
    \/ \E t \in AddInputs : \E inp \in [ColNames(t) -> RawInputs] : AddEntry(t, inp)
    \/ \E t \in UpdateInputs : \E c \in ColNames(t) \cup {"nocol"} :
          \E id \in IdInputs : \E v \in UpdateValueInputs(t, c) : UpdateEntry(t, c, id, v)
    \/ \E t \in DeleteInputs : \E id \in IdInputs : \E ans \in DeleteAnswerInputs(t) :
          DeleteEntry(t, id, ans)
    \/ \E t \in TableInputs : \E n \in CountInputs : GenerateDataSql(t, n)
    \/ \E p \in SearchPairs : \E f \in FilterChoices(p[1], p[2]) :
          \E e \in (IF JoinEdges(p[1], p[2]) = {} THEN {NoEdge} ELSE JoinEdges(p[1], p[2])) :
             MultiAttributeSearch(p[1], p[2], f, e)
    \/ \E choice \in {<<"1">>, <<"x">>} : \E accepted \in BOOLEAN :
          RunPreparedReports(choice, accepted)
    \/ ExitApp
    \/ InvalidChoice

Spec == Init /\ [][Next]_vars

\* ----------------------------------------- the functions on their own
\* data_type values information_schema.columns reports for PostgreSQL columns

NativeTypes ==
    { S_integer, S_bigint, S_smallint, S_numeric, S_double_precision, S_real,
      S_boolean, S_text, S_date, T_uuid,
      <<"c","h","a","r","a","c","t","e","r"," ","v","a","r","y","i","n","g">>,
      <<"c","h","a","r","a","c","t","e","r">>,
      <<"t","i","m","e","s","t","a","m","p"," ","w","i","t","h","o","u","t"," ","t","i","m","e"," ","z","o","n","e">>,
      <<"t","i","m","e","s","t","a","m","p"," ","w","i","t","h"," ","t","i","m","e"," ","z","o","n","e">>,
      <<"t","i","m","e"," ","w","i","t","h","o","u","t"," ","t","i","m","e"," ","z","o","n","e">>,
      <<"i","n","t","e","r","v","a","l">>,
      <<"j","s","o","n">>,
      <<"b","y","t","e","a">>,
      <<"m","o","n","e","y">>,
      <<"d","a","t","e","r","a","n","g","e">>,
      <<"A","R","R","A","Y">>,
      <<"t","i","m","e"," ","w","i","t","h"," ","t","i","m","e"," ","z","o","n","e">>,
      <<"j","s","o","n","b">>,
      <<"x","m","l">>,
      <<"t","s","v","e","c","t","o","r">>,
      <<"n","u","m","r","a","n","g","e">>,
      <<"U","S","E","R","-","D","E","F","I","N","E","D">> }

\* strings a caller can hand to _cast_value_from_input
CastInputs ==
    { <<>>, <<" ">>, <<"\t">>, <<" ", "\n", " ">>, <<"1">>, <<" ", "1", " ">>,
      <<"1", ".", "5">>, <<"-", "2">>, <<"x">>, <<"Y", "E", "S">>, <<"n", "o">> }

\* whitespace only, the empty string included
IsBlank(s) == \A i \in 1..Len(s) : s[i] \in {" ", "\t", "\n"}

\* one call of _cast_value_from_input; out holds the call and what it returned
ApplyCast(value, data_type) ==
    /\ out' = [op |-> "cast", value |-> value, data_type |-> data_type,
               result |-> CastValueFromInput(value, data_type)]
    /\ UNCHANGED <<db, txn, running>>

\* no function applied yet
\* answers a caller can give to the prompts of build_filter_clause
FilterBounds ==
    { <<>>, <<" ">>, <<"1">>, <<" ", "-", "2", ".", "5">>, <<"x">>, <<"o", "'", "c">> }

\* one call of Interface.build_filter_clause on column c of table t
ApplyFilter(data_type, a, b) ==
    /\ out' = [op |-> "filter", data_type |-> data_type, a |-> a, b |-> b,
               result |-> BuildFilterClause("t", "c", data_type, a, b)]
    /\ UNCHANGED <<db, txn, running>>

\* the three type dispatchers on one data_type: the casts of '1', '1.5' and
\* 't', the filter for the answers 't' and '1', and the expression generated
\* for codes.code, a column that is no foreign key and no e-mail column
ApplyDispatch(data_type) ==
    /\ out' = [op |-> "dispatch", data_type |-> data_type,
               cast_1 |-> CastValueFromInput(<<"1">>, data_type),
               cast_1_5 |-> CastValueFromInput(<<"1", ".", "5">>, data_type),
               cast_t |-> CastValueFromInput(<<"t">>, data_type),
               filter |-> BuildFilterClause("codes", "code", data_type, <<"t">>, <<"1">>),
               gen |-> GenExpr("codes", "code", data_type)]
    /\ UNCHANGED <<db, txn, running>>

FnInit ==
    /\ db = [t \in Tables |-> <<>>]
    /\ txn = "idle"
    /\ running = TRUE
    /\ out = [op |-> "none"]

FnNext ==
    \/ \E value \in CastInputs : \E data_type \in NativeTypes : ApplyCast(value, data_type)
    \/ \E data_type \in NativeTypes : \E a \in FilterBounds : \E b \in FilterBounds :
          ApplyFilter(data_type, a, b)
    \/ \E data_type \in NativeTypes : ApplyDispatch(data_type)

\* the pure functions of the model and the view, applied to any input
FnSpec == FnInit /\ [][FnNext]_vars

\* ================================================================ properties
Mutating == {"add_entry", "update_entry", "delete_entry", "generate"}

\* the handler sent its data statement and the engine accepted it
StatementSucceeded == out.stmt.kind # "none" /\ out.result \in {"ok", "NoRows"}

\* C1: every mutating operation (insert_entry_validated, update_entry_validated,
\* delete_entry, generate_rows_sql) commits when its statement succeeds and,
\* when the session raises a database error during the operation, rolls the
\* session back before the error reaches the caller.
C1_CommitOrRollback ==
    out.op \in Mutating =>
        /\ StatementSucceeded => out.commit /\ txn = "idle"
        /\ out.result = "DatabaseError" => out.rollback /\ txn = "idle"

\* C2: every operation the controller dispatches ends with a commit or a
\* rollback, so no transaction is open or aborted when the next one begins.
C2_NoTransactionLeftOpen ==
    running => txn = "idle"

\* the step is a call of generate_rows_sql that sent its bulk INSERT
BulkSent == out'.op = "generate" /\ out'.stmt.kind = "BULK"

\* the rows of table t that the step appended
NewRows(t) == {db'[t][k] : k \in (Len(db[t]) + 1)..Len(db'[t])}

\* the step changed table t only, by appending n rows to it
Appended(t, n) ==
    /\ Len(db'[t]) = Len(db[t]) + n
    /\ SubSeq(db'[t], 1, Len(db[t])) = db[t]
    /\ \A u \in Tables \ {t} : db'[u] = db[u]

\* C3: generate_rows_sql(table, count) is all-or-nothing. Once the bulk INSERT
\* is sent, either it succeeds, exactly count rows are appended and committed
\* and count is returned, or it fails, the session is rolled back, the
\* database holds exactly the rows it held before and the error is raised.
C3_AllOrNothing ==
    [][BulkSent =>
        \A countRaw \in CountInputs :
            GenerateDataSql(out'.table, countRaw) =>
                \/ /\ out'.result = "ok"
                   /\ out'.ret = IntOf(countRaw)
                   /\ Appended(out'.table, IntOf(countRaw))
                   /\ out'.commit /\ ~out'.rollback /\ txn' = "idle"
                \/ /\ out'.result = "DatabaseError"
                   /\ db' = db
                   /\ out'.rollback /\ ~out'.commit /\ txn' = "idle"]_vars

\* a bulk INSERT was rejected by the engine on a table that already held a row,
\* and the session was rolled back
C3_Witness ==
    /\ out.op = "generate" /\ out.stmt.kind = "BULK"
    /\ out.result = "DatabaseError" /\ out.rollback /\ txn = "idle"
    /\ db[out.table] # <<>>

\* C4: for a foreign-key column in the generated column list, the expression
\* is a sub-select over the referenced parent column, every row the call
\* commits has in that column a value the parent column held when the
\* statement ran, and with an empty parent table nothing is committed.
C4_ForeignKeysFromParent ==
    [][BulkSent =>
        \A e \in {x \in SchemaFks : x.child = out'.table} :
            \A i \in 1..Len(out'.stmt.cols) :
                out'.stmt.cols[i] = e.col =>
                    /\ out'.stmt.exprs[i] = Expr("fk", e.parent, e.pcol)
                    /\ \A r \in NewRows(out'.table) :
                          \E j \in 1..Len(db[e.parent]) : r[e.col] = db[e.parent][j][e.pcol]
                    /\ db[e.parent] = <<>> =>
                          db' = db /\ ~out'.commit /\ out'.result = "DatabaseError"]_vars

\* generation into orders committed a row that references a customer
C4_Witness ==
    /\ out.op = "generate" /\ out.table = "orders" /\ out.result = "ok"
    /\ out.commit /\ db["orders"] # <<>> /\ db["customers"] # <<>>

\* the last handler was generate_data_sql and it sent the bulk INSERT
BulkBuilt == out.op = "generate" /\ out.stmt.kind = "BULK"

\* the columns the schema declares NOT NULL without a default
NotNullNoDefault(t) ==
    {c \in ColNames(t) : ColRec(t, c).notnull /\ ~ColRec(t, c).hasdefault}

StmtCols == {out.stmt.cols[i] : i \in 1..Len(out.stmt.cols)}

\* C5: the column list of the bulk INSERT is a subset of the table's
\* NOT-NULL-without-default columns, and for a table where that set is empty
\* the call fails with the no-insertable-columns error and sends no INSERT
\* (on a session that still accepts the call's metadata queries).
C5_OnlyNotNullNoDefault ==
    out.op = "generate" =>
        /\ out.stmt.kind = "BULK" => StmtCols \subseteq NotNullNoDefault(out.table)
        /\ (/\ TableExists(out.table) /\ NotNullNoDefault(out.table) = {}
            /\ out.result # "InvalidCount" /\ txn # "aborted")
           => /\ out.result = "NoInsertableColumns"
              /\ out.stmt.kind = "none" /\ ~out.commit

\* generation into customers (serial id, nullable name) was refused
C5_Witness ==
    /\ out.op = "generate" /\ out.table = "customers"
    /\ out.result = "NoInsertableColumns" /\ out.stmt.kind = "none"

\* C6 as stated: the primary-key column and the columns with a default are
\* never in the generated column list, for every table, a table whose primary
\* key is NOT NULL with no default included.
C6_PkNeverGenerated ==
    BulkBuilt =>
        /\ FindPkColumn(out.table) \notin StmtCols
        /\ StmtCols \cap HasDefaultCols(out.table) = {}

\* C6 amended: a column with a database-side default (a serial primary key
\* included) is never in the generated column list; a primary key that is
\* NOT NULL with no default is in it.
C6_DefaultsNeverGenerated ==
    BulkBuilt =>
        /\ StmtCols \cap HasDefaultCols(out.table) = {}
        /\ \A c \in ColNames(out.table) :
              c = SchemaPk(out.table) =>
                  (c \in StmtCols <=> c \in NotNullNoDefault(out.table))

\* generation into codes, whose text key has no default, committed a row with
\* a generated key
C6_Witness ==
    /\ BulkBuilt /\ out.table = "codes" /\ out.result = "ok"
    /\ "code" \in StmtCols /\ db["codes"] # <<>>

\* C7: every insertable column gets a non-NULL generation expression; a column
\* that is no foreign key, has no 'email' in its name and whose type is text
\* or unknown gets the pseudo-random token expression.
C7_UnknownTypeAsText ==
    BulkBuilt =>
        \A i \in 1..Len(out.stmt.cols) :
            /\ out.stmt.exprs[i].kind # "null"
            /\ (/\ out.stmt.cols[i] \notin FkMapCols(out.table)
                /\ ~Contains(Lower(NameChars(out.stmt.cols[i])), S_email)
                /\ ColType(out.table, out.stmt.cols[i]) \in {T_text, T_uuid})
               => out.stmt.exprs[i] = Expr("text", "", "")

NoPkTables == {t \in Tables : SchemaPk(t) = ""}

\* C9 as stated: an update or a delete on a table without a primary key fails
\* with the primary-key-missing error and sends no statement.
C9_PkMissingFirst ==
    (/\ out.op \in {"update_entry", "delete_entry"} /\ out.table \in NoPkTables
     /\ out.result # "TableNotFound" /\ txn # "aborted")
    => out.result = "PrimaryKeyMissing" /\ out.stmt.kind = "none"

\* C9 amended: an update or a delete on a table without a primary key sends
\* no UPDATE/DELETE, commits nothing and leaves the database unchanged; the
\* delete fails with the primary-key-missing error, and so does the update
\* when its new value casts to the column's type, but an update whose new
\* value does not cast fails with the cast error, the cast coming first. In a
\* session a failed statement left aborted both fail with its database error.
C9_NoPkNoStatement ==
    [][(out'.op \in {"update_entry", "delete_entry"} /\ out'.table \in NoPkTables) =>
        /\ db' = db
        /\ out'.stmt.kind = "none" /\ ~out'.commit
        /\ IF txn = "aborted" THEN out'.result = "DatabaseError"
           ELSE /\ out'.op = "delete_entry" => out'.result = "PrimaryKeyMissing"
                /\ \A column \in ColNames(out'.table) : \A row_id \in IdInputs :
                   \A new_value \in ValueInputs :
                      UpdateEntry(out'.table, column, row_id, new_value) =>
                          out'.result = IF Cast(new_value, ColType(out'.table, column)).ok
                                        THEN "PrimaryKeyMissing" ELSE "CastError"]_vars

\* an update on events, which has no primary key, was refused for its value
C9_Witness ==
    /\ out.op = "update_entry" /\ out.table = "events"
    /\ out.result = "CastError" /\ out.stmt.kind = "none" /\ txn = "intrans"

\* the tables some foreign key references
ParentTables == {e.parent : e \in SchemaFks}

\* C10: in the delete flow on a table with a referencing child table, a DELETE
\* is sent only after the non-empty list of child tables was shown and the
\* user confirmed; without the confirmation no DELETE is sent and the
\* database is unchanged.
C10_WarnAndConfirmBeforeDelete ==
    [][(out'.op = "delete_entry" /\ out'.table \in ParentTables) =>
        \A row_id \in IdInputs : \A ans \in AnswerInputs :
            DeleteEntry(out'.table, row_id, ans) =>
                /\ txn # "aborted" =>
                      /\ out'.asked
                      /\ out'.warned = {e.child : e \in {x \in SchemaFks : x.parent = out'.table}}
                      /\ out'.warned # {}
                /\ out'.stmt.kind = "DELETE" =>
                      out'.asked /\ out'.warned # {} /\ Confirm(ans)
                /\ ~Confirm(ans) =>
                      /\ out'.stmt.kind = "none" /\ db' = db /\ ~out'.commit
                      /\ txn # "aborted" => out'.result = "Cancelled"]_vars

\* a customer was deleted after the warning about orders and a confirmation
C10_Witness ==
    /\ out.op = "delete_entry" /\ out.table = "customers"
    /\ out.stmt.kind = "DELETE" /\ out.result = "ok" /\ out.ret = 1
    /\ out.warned = {"orders"} /\ out.asked

\* C11: for every native column type, _cast_value_from_input applied to an
\* empty or whitespace-only string returns the null value and raises nothing.
C11_BlankCastsToNull ==
    (out.op = "cast" /\ IsBlank(out.value)) => out.result = CastOk(PyNone)

\* a whitespace-only string was cast for a boolean column
C11_Witness ==
    /\ out.op = "cast" /\ out.value = <<" ", "\n", " ">>
    /\ out.data_type = S_boolean /\ out.result = CastOk(PyNone)

\* the data_type names of the integer and decimal columns, and of the date and
\* timestamp columns
NumericTypes == {S_integer, S_bigint, S_smallint, S_numeric, S_double_precision, S_real}
TemporalTypes == {dt \in NativeTypes : dt = S_date \/ StartsWith(dt, S_timestamp)}

\* the literal a bound must be embedded as: the bound itself or 0 for a numeric
\* column, the quoted bound for a temporal one
C12_Literal(data_type, s) ==
    IF data_type \in NumericTypes
    THEN IF IsFloatLiteral(s) THEN s ELSE <<"0">>
    ELSE <<"'">> \o QuoteBody(s) \o <<"'">>

\* C12: for a numeric or temporal column build_filter_clause emits col >= lo
\* when only the lower bound is given, col <= hi when only the upper bound is
\* given, both in this order joined with AND when both are given, and TRUE when
\* both are omitted; a numeric bound float() rejects is embedded as 0.
C12_RangeFilterShape ==
    (out.op = "filter" /\ out.data_type \in NumericTypes \cup TemporalTypes) =>
        LET lo == Strip(out.a)
            hi == Strip(out.b)
            r == out.result
            Ge == [table |-> "t", column |-> "c", op |-> ">=",
                   lit |-> C12_Literal(out.data_type, lo)]
            Le == [table |-> "t", column |-> "c", op |-> "<=",
                   lit |-> C12_Literal(out.data_type, hi)]
        IN  /\ (lo # <<>> /\ hi = <<>>) => r = <<Ge>>
            /\ (lo = <<>> /\ hi # <<>>) => r = <<Le>>
            /\ (lo # <<>> /\ hi # <<>>) => r = <<Ge, Le>>
            /\ (lo = <<>> /\ hi = <<>>) => r = <<>>
            /\ \A i \in 1..Len(r) :
                  out.data_type \in NumericTypes => IsFloatLiteral(r[i].lit)

\* a bigint column filtered with an unparsable lower and a parsable upper bound
C12_Witness ==
    /\ out.op = "filter" /\ out.data_type = S_bigint
    /\ out.a = <<"x">> /\ out.b = <<" ", "-", "2", ".", "5">>
    /\ out.result = << [table |-> "t", column |-> "c", op |-> ">=", lit |-> <<"0">>],
                       [table |-> "t", column |-> "c", op |-> "<=",
                        lit |-> <<"-", "2", ".", "5">>] >>

\* C13: when the search builds its query for two existing tables, a foreign
\* key between them in either direction gives an inner join whose ON condition
\* is child.childColumn = parent.parentColumn of such an edge and no warning;
\* no foreign key gives a CROSS JOIN without condition and the no-relation
\* warning.
C13_JoinFollowsForeignKey ==
    (out.op = "search" /\ out.stmt.kind = "SELECT" /\ out.stmt.cols[2] # "") =>
        LET t1 == out.stmt.cols[1]
            t2 == out.stmt.cols[2]
            from == out.stmt.exprs[1]
            edges == {e \in SchemaFks : {e.child, e.parent} = {t1, t2}}
        IN  /\ {t1, t2} \subseteq Tables
            /\ from.t1 = t1 /\ from.t2 = t2
            /\ edges # {} => /\ from.join = "inner"
                             /\ from.on \in edges
                             /\ out.warned = {}
            /\ edges = {} => /\ from.join = "cross"
                             /\ from.on = NoEdge
                             /\ out.warned = {"no foreign key relation"}

\* customers was searched with orders, the child table, as the second table
C13_Witness ==
    /\ out.op = "search" /\ out.result = "ok"
    /\ out.stmt.cols = <<"customers", "orders">>
    /\ out.stmt.exprs[1].join = "inner"
    /\ out.stmt.exprs[1].on = [child |-> "orders", col |-> "customer_id",
                               parent |-> "customers", pcol |-> "id"]
    /\ out.warned = {}

\* the outcome of a method call that stopped at the cast
C14_Stopped(r, d) ==
    r.result = "CastError" /\ r.stmt = NoStmt /\ ~r.commit /\ r.db = d

\* C14: when a supplied value does not cast to its column's type,
\* insert_entry_validated and update_entry_validated raise the cast error
\* before any INSERT or UPDATE is executed: no statement is sent, nothing is
\* committed and the tables are unchanged, also after the handler returned.
C14_CastFailsBeforeStatement ==
    /\ [](/\ \A t \in AddInputs \cap Tables : \A inp \in [ColNames(t) -> RawInputs] :
              (\E c \in ColNames(t) :
                  Strip(inp[c]) # <<>> /\ ~CastValueFromInput(inp[c], ColType(t, c)).ok)
              => \A nv \in SerialStarts :
                    C14_Stopped(InsertEntryValidated(db, txn, t,
                                    GetValuesForColumns(t, inp), nv), db)
          /\ \A t \in UpdateInputs \cap Tables : \A c \in ColNames(t) :
              \A id \in IdInputs : \A v \in ValueInputs :
              ~CastValueFromInput(v, ColType(t, c)).ok
              => C14_Stopped(UpdateEntryValidated(db, txn, t, c, id, v), db))
    /\ [][(out'.op \in {"add_entry", "update_entry"} /\ out'.result = "CastError")
           => out'.stmt.kind = "none" /\ ~out'.commit /\ db' = db]_vars

\* an order was refused for its customer_id while customers held a row
C14_Witness ==
    /\ out.op = "add_entry" /\ out.table = "orders" /\ out.result = "CastError"
    /\ "customer_id" \in out.given
    /\ out.stmt.kind = "none" /\ ~out.commit
    /\ db["customers"] # <<>>

\* C15: the session recovers from a failed operation: whatever failed before,
\* the next operation with valid input runs in a usable transaction, so that
\* listing the tables, which takes no input, never fails.
C15_SessionRecovers ==
    [][ShowTables => (txn # "aborted" /\ out'.result = "ok")]_vars

\* the categories whose conversion rule gives the casts of '1', '1.5' and 't'
\* observed: text, temporal and unknown values all pass through as typed
C16_CastCategories ==
    IF ~out.cast_1.ok \/ ~out.cast_1_5.ok \/ ~out.cast_t.ok
    THEN IF out.cast_1.ok /\ out.cast_1.val.k = "int" THEN {"integer"}
         ELSE IF out.cast_1_5.ok /\ out.cast_1_5.val.k = "float" THEN {"decimal"}
         ELSE IF out.cast_t.ok /\ out.cast_t.val.k = "bool" THEN {"boolean"}
         ELSE {}
    ELSE IF {out.cast_1.val.k, out.cast_1_5.val.k, out.cast_t.val.k} = {"str"}
         THEN {"text", "temporal", "unknown"}
         ELSE {}

\* the categories whose predicate shape the filter for 't' and '1' has: the
\* range of bare numbers is the shape of both integer and decimal
C16_FilterCategories ==
    LET r == out.filter
        Quoted(i) == Head(r[i].lit) = "'"
    IN  IF Len(r) = 2 /\ r[1].op = ">=" /\ r[2].op = "<="
        THEN IF ~Quoted(1) /\ ~Quoted(2) THEN {"integer", "decimal"}
             ELSE IF Quoted(1) /\ Quoted(2) THEN {"temporal"} ELSE {}
        ELSE IF Len(r) = 1 /\ r[1].op = "ILIKE" THEN {"text"}
        ELSE IF Len(r) = 1 /\ r[1].op = "=" /\ ~Quoted(1) THEN {"boolean"}
        ELSE IF Len(r) = 1 /\ r[1].op = "=" /\ Quoted(1) THEN {"unknown"}
        ELSE {}

\* the category whose generation rule produced the expression
C16_GenCategory ==
    CASE out.gen.kind = "int" -> "integer"
      [] out.gen.kind = "numeric" -> "decimal"
      [] out.gen.kind = "boolean" -> "boolean"
      [] out.gen.kind \in {"timestamp", "date"} -> "temporal"
      [] out.gen.kind = "text" -> "text"
      [] out.gen.kind = "null" -> "unknown"
      [] OTHER -> "none"

\* C16: for every native type name the three dispatchers agree: the category
\* whose rule generate_rows_sql applies is a category whose conversion
\* _cast_value_from_input applies and whose predicate shape
\* build_filter_clause emits.
C16_DispatchersAgree ==
    out.op = "dispatch" =>
        C16_GenCategory \in C16_CastCategories \cap C16_FilterCategories

\* the three dispatchers took 'timestamp with time zone' as temporal
C16_Witness ==
    /\ out.op = "dispatch"
    /\ out.data_type = <<"t","i","m","e","s","t","a","m","p"," ","w","i","t","h"," ",
                         "t","i","m","e"," ","z","o","n","e">>
    /\ out.gen.kind = "timestamp"
    /\ C16_FilterCategories = {"temporal"}
    /\ "temporal" \in C16_CastCategories

====
